---------------------------- MODULE Spec2Model ----------------------------
(* A model of the Pivotal Tracker source connector                          *)
(* (source_pivotal_tracker/source.py): header-driven pagination, the        *)
(* per-project slices, the incremental cursor of Stories and Activity, and  *)
(* project discovery with the stream catalog.                               *)
(*                                                                          *)
(* Python values are modelled as follows.                                   *)
(*   str   a sequence of character codes; the characters that occur are     *)
(*         the decimal digits, code d for the digit d.  "" is << >>.        *)
(*   None  NoneVal where a str may stand, NoToken where a dict may stand.   *)
(*   dict  a function whose domain is the set of keys; {} is << >>.         *)
(*   list  a sequence.                                                      *)
(* A timestamp "YYYY-01-01T00:00:00" is written by the four digits of its   *)
(* year: every modelled timestamp has the same remaining characters, so     *)
(* the string order of the full texts is the string order of the years.     *)
EXTENDS Integers, Sequences, FiniteSets, TLC

VARIABLES
    response,       \* the HTTP response last received: [headers, body]
    token,          \* HttpStream.read_records: next_page_token
    kind,           \* the class of the stream that is read
    project_ids,    \* ProjectBasedStream.project_ids
    coll,           \* server side: project id -> the project's records
    paging,         \* server side: [paginated, limit] of the endpoint
    cursor_value,   \* IncrementalPivotalStream._cursor_value
    pc,             \* where the read pass stands
    slices,         \* the slices of the pass that are not yet read
    stream_slice,   \* the slice that is read
    stream_state,   \* the stream_state argument of read_records
    page,           \* records of the parsed response not yet yielded
    held,           \* the record the suspended generator has just yielded
    requests,       \* history: every request of the pass, [slice, params]
    emitted,        \* history: every record handed to the consumer
    start_value,    \* history: _cursor_value when the pass began
    slice_start,    \* history: _cursor_value when the slice's read began
    last_set,       \* history: the argument of a state assignment just made
    before,         \* history: what an interrupted sync left behind
    listing,        \* server side: the records of the projects listing
    fails_at,       \* server side: how many records the listing yields
                    \* before it raises, -1 when it does not raise
    probe,          \* server side: project id -> what its detail request does
    caller,         \* the method that runs discovery
    pos,            \* _generate_project_ids: the listing records consumed
    found,          \* _generate_project_ids: project_ids
    log,            \* history: the project ids of the logged probe errors
    probed,         \* history: the project ids probed, in order
    catalog,        \* the list streams() returned
    check_result,   \* what check_connection returned
    read_count      \* the streams of the catalog the runner has taken

read_vars == <<response, token, kind, project_ids, coll, paging, cursor_value,
               slices, stream_slice, stream_state, page, held, requests,
               emitted, start_value, slice_start, last_set, before>>

discovery_vars == <<listing, fails_at, probe, caller, pos, found, log, probed,
                    catalog, check_result, read_count>>

vars == <<pc, read_vars, discovery_vars>>

-----------------------------------------------------------------------------
(* Bounds of the model.                                                     *)

\* Most records the server holds, over all projects together.
MaxRecs == 3
\* Largest page size the server uses.
MaxLimit == 2
\* The project ids a stream can be built with: a prefix of this list.
AllProjects == <<1, 2>>
\* Cursor values of the server's records ("2019-..", "2020-..", "2100-..").
Stamps == {<<2, 0, 1, 9>>, <<2, 0, 2, 0>>, <<2, 1, 0, 0>>}
\* Header texts the Paginator is tried on: "0", "1", "2", "10".
HeaderTexts == {<<0>>, <<1>>, <<2>>, <<1, 0>>}

-----------------------------------------------------------------------------
(* Python values.                                                           *)

\* None, where the other values are strings.
NoneVal == <<-1>>
\* None, where the other values are dicts.
NoToken == [none |-> TRUE]
\* The empty dict.
EmptyDict == << >>

\* dict.get(key, default)
DictGet(d, key, default) == IF key \in DOMAIN d THEN d[key] ELSE default

\* d[key] = value on a dict
DictPut(d, key, value) == (key :> value) @@ d

\* bool(x) of a dict or None
TruthyDict(x) == x # NoToken /\ DOMAIN x # {}

\* bool(x) of a str or None
TruthyStr(x) == x # NoneVal /\ x # << >>

\* a < b on str: the order of the first differing character, a proper prefix first
RECURSIVE StrLess(_, _)
StrLess(a, b) ==
    IF b = << >> THEN FALSE
    ELSE IF a = << >> THEN TRUE
    ELSE IF Head(a) # Head(b) THEN Head(a) < Head(b)
    ELSE StrLess(Tail(a), Tail(b))

\* max(a, b) on str: the first argument unless the second is greater
StrMax(a, b) == IF StrLess(a, b) THEN b ELSE a

\* int(s) of a text of decimal digits
RECURSIVE IntOf(_)
IntOf(s) ==
    IF s = << >> THEN 0
    ELSE 10 * IntOf(SubSeq(s, 1, Len(s) - 1)) + s[Len(s)]

\* str(n) of a natural number
RECURSIVE StrOf(_)
StrOf(n) == IF n < 10 THEN <<n>> ELSE Append(StrOf(n \div 10), n % 10)

-----------------------------------------------------------------------------
(* PivotalTrackerStream                                                     *)

HTotal == "X-Tracker-Pagination-Total"
HLimit == "X-Tracker-Pagination-Limit"
HReturned == "X-Tracker-Pagination-Returned"
HOffset == "X-Tracker-Pagination-Offset"

\* The outcome of a call that raised.
Raised(what) == [raised |-> what]
KeyError == Raised("KeyError")

next_page_token_stops_at_total(resp) ==
    LET headers == resp.headers IN
    IF HTotal \notin DOMAIN headers THEN NoToken
    ELSE IF {HLimit, HReturned, HOffset} \subseteq DOMAIN headers
    THEN LET page_size == IntOf(headers[HLimit])
             records_returned == IntOf(headers[HReturned])
             current_offset == IntOf(headers[HOffset])
         IN IF current_offset + records_returned >= IntOf(headers[HTotal])
            THEN NoToken
            ELSE [offset |-> current_offset + page_size]
    ELSE KeyError

next_page_token_same_offset(resp) ==
    LET headers == resp.headers IN
    IF HTotal \notin DOMAIN headers THEN NoToken
    ELSE IF {HLimit, HReturned, HOffset} \subseteq DOMAIN headers
    THEN LET page_size == IntOf(headers[HLimit])
             records_returned == IntOf(headers[HReturned])
             current_offset == IntOf(headers[HOffset])
         IN IF records_returned < page_size THEN NoToken
            ELSE [offset |-> current_offset]
    ELSE KeyError

\* next_page_token(response): None, {"offset": n}, or a KeyError for a header
\* that is read and missing.
next_page_token(resp) ==
    LET headers == resp.headers IN
    IF HTotal \notin DOMAIN headers THEN NoToken
    ELSE IF {HLimit, HReturned, HOffset} \subseteq DOMAIN headers
    THEN LET page_size == IntOf(headers[HLimit])
             records_returned == IntOf(headers[HReturned])
             current_offset == IntOf(headers[HOffset])
         IN IF records_returned < page_size THEN NoToken
            ELSE [offset |-> current_offset + page_size]
    ELSE KeyError

base_request_params_offset_zero(state, slice, page_token) ==
    DictPut(EmptyDict, "offset",
            IF TruthyDict(page_token) THEN page_token.offset ELSE 0)

\* PivotalTrackerStream.request_params
base_request_params(state, slice, page_token) ==
    IF TruthyDict(page_token) THEN DictPut(EmptyDict, "offset", page_token.offset)
    ELSE EmptyDict

base_parse_response_reversed(resp) ==
    [i \in 1..Len(resp.body) |-> resp.body[Len(resp.body) + 1 - i]]

\* PivotalTrackerStream.parse_response: the elements of the JSON array, in order
base_parse_response(resp) == resp.body

-----------------------------------------------------------------------------
(* The stream classes.                                                      *)

ProjectScoped == {"Stories", "ProjectMemberships", "Labels", "Releases",
                  "Epics", "Activity"}
Kinds == {"Projects"} \cup ProjectScoped

\* The classes that derive from IncrementalPivotalStream.
Incremental(k) == k \in {"Stories", "Activity"}

\* subpath of the project-scoped classes
subpath(k) ==
    CASE k = "Stories" -> "stories"
      [] k = "ProjectMemberships" -> "memberships"
      [] k = "Labels" -> "labels"
      [] k = "Releases" -> "releases"
      [] k = "Epics" -> "epics"
      [] k = "Activity" -> "activity"

\* The slice of a stream that is not sliced.
NoSlice == [none |-> TRUE]

\* path(): the project the request addresses (0: the projects listing) and
\* the collection within it.
path(k, slice) ==
    IF k = "Projects" THEN [project |-> 0, sub |-> "projects"]
    ELSE [project |-> slice["project_id"], sub |-> subpath(k)]

stream_slices_drop_last(k, ids) ==
    IF k = "Projects" THEN <<NoSlice>>
    ELSE [i \in 1..(Len(ids) - 1) |-> ("project_id" :> ids[i])]

\* ProjectBasedStream.stream_slices: one slice per project id, in list order.
\* Projects keeps the inherited slicing, the single empty slice.
stream_slices(k, ids) ==
    IF k = "Projects" THEN <<NoSlice>>
    ELSE [i \in 1..Len(ids) |-> ("project_id" :> ids[i])]

\* "1970-01-01T00:00:00"
Epoch == <<1, 9, 7, 0>>

\* IncrementalPivotalStream.cursor_field, overridden by Activity
cursor_field(k) == IF k = "Activity" THEN "occurred_at" ELSE "updated_at"

\* IncrementalPivotalStream.cursor_filter, overridden by Activity
cursor_filter(k) == IF k = "Activity" THEN "occurred_after" ELSE "updated_after"

\* IncrementalPivotalStream.state (getter)
state_getter(k, cv) ==
    IF TruthyStr(cv) THEN cursor_field(k) :> cv ELSE EmptyDict

state_setter_keeps_later(k, cv, value) ==
    StrMax(DictGet(value, cursor_field(k), Epoch), cv)

state_setter_empty_default(k, cv, value) ==
    DictGet(value, cursor_field(k), << >>)

\* IncrementalPivotalStream.state (setter): the new _cursor_value
state_setter(k, cv, value) == DictGet(value, cursor_field(k), Epoch)

incremental_request_params_live(k, cv, state, slice, page_token) ==
    DictPut(base_request_params(state, slice, page_token), cursor_filter(k),
            DictGet(state_getter(k, cv), cursor_field(k), NoneVal))

\* IncrementalPivotalStream.request_params; cv is self._cursor_value
incremental_request_params(k, cv, state, slice, page_token) ==
    DictPut(base_request_params(state, slice, page_token), cursor_filter(k),
            DictGet(state, cursor_field(k), NoneVal))

\* request_params of the class k
request_params(k, cv, state, slice, page_token) ==
    IF Incremental(k)
    THEN incremental_request_params(k, cv, state, slice, page_token)
    ELSE base_request_params(state, slice, page_token)

activity_record_only_project_id(record) ==
    IF "project" \in DOMAIN record
    THEN "project_id" :> record["project"]["id"]
    ELSE record

\* Activity.parse_response on one record
activity_record(record) ==
    IF "project" \in DOMAIN record
    THEN DictPut(record, "project_id", record["project"]["id"])
    ELSE record

\* parse_response of the class k
parse_response(k, resp) ==
    IF k = "Activity"
    THEN [i \in 1..Len(base_parse_response(resp)) |->
              activity_record(base_parse_response(resp)[i])]
    ELSE base_parse_response(resp)

advance_never(k, cv, record) == cv

advance_last_wins(k, cv, record) == record[cursor_field(k)]

\* IncrementalPivotalStream.read_records, the statement after the yield
advance(k, cv, record) == StrMax(record[cursor_field(k)], cv)

-----------------------------------------------------------------------------
(* The Tracker API, as the connector sees it.                               *)

Min(a, b) == IF a < b THEN a ELSE b

\* The record i of project p whose cursor value is ts, as the endpoint of
\* class k returns it.  An activity names its project in a sub-object.
ServerRecord(k, p, i, ts) ==
    IF k = "Activity"
    THEN ("guid" :> (10 * p + i)) @@ (cursor_field(k) :> ts)
         @@ ("project" :> ("id" :> p))
    ELSE ("id" :> (10 * p + i)) @@ (cursor_field(k) :> ts)

\* The records of the addressed collection that pass the request's cursor
\* filter: those strictly after it; all of them without a filter.
ServerSelect(k, records, params) ==
    LET after == DictGet(params, cursor_filter(k), NoneVal) IN
    IF Incremental(k) /\ after # NoneVal
    THEN SelectSeq(records, LAMBDA r : StrLess(after, r[cursor_field(k)]))
    ELSE records

\* The response to GET path?params.  A paginated endpoint returns the page
\* at the requested offset and the four pagination headers; an endpoint
\* that does not paginate returns everything and none of them.
ServerRespond(k, records, pg, params) ==
    LET all == ServerSelect(k, records, params)
        offset == DictGet(params, "offset", 0)
        body == SubSeq(all, offset + 1, Min(offset + pg.limit, Len(all)))
    IN IF pg.paginated
       THEN [headers |-> (HTotal :> StrOf(Len(all))) @@ (HLimit :> StrOf(pg.limit))
                         @@ (HReturned :> StrOf(Len(body)))
                         @@ (HOffset :> StrOf(offset)),
             body |-> body]
       ELSE [headers |-> EmptyDict, body |-> all]

-----------------------------------------------------------------------------
(* Reading a stream: the runner takes the slices in turn and, for each,     *)
(* drains read_records, which fetches page after page.                      *)

Pending == [pending |-> TRUE]
NotSet == [valid |-> FALSE, value |-> EmptyDict]
NoResponse == [headers |-> EmptyDict, body |-> << >>]
NoResult == <<FALSE, "none">>
NotResumed == [valid |-> FALSE, checkpoint |-> EmptyDict, emitted |-> << >>,
               observed |-> << >>]

\* What a caller can assign to stream.state: {}, or one timestamp under
\* either class's cursor field.
StateInputs ==
    {EmptyDict} \cup {f :> t : f \in {"updated_at", "occurred_at"}, t \in Stamps}

\* stream.state = value, between read passes
SetState(value) ==
    /\ UNCHANGED discovery_vars
    /\ pc \in {"idle", "drained"}
    /\ Incremental(kind)
    /\ cursor_value' = state_setter(kind, cursor_value, value)
    /\ last_set' = [valid |-> TRUE, value |-> value]
    /\ pc' = "idle"
    /\ requests' = << >>
    /\ emitted' = << >>
    /\ start_value' = cursor_value'
    /\ UNCHANGED <<response, token, kind, project_ids, coll, paging, slices,
                   stream_slice, stream_state, page, held, slice_start, before>>

\* The runner starts a read pass: slices = stream.stream_slices(...)
StartPass ==
    /\ UNCHANGED discovery_vars
    /\ pc \in {"idle", "drained"}
    /\ slices' = stream_slices(kind, project_ids)
    /\ pc' = "slice"
    /\ requests' = << >>
    /\ emitted' = << >>
    /\ start_value' = cursor_value
    /\ last_set' = NotSet
    /\ UNCHANGED <<response, token, kind, project_ids, coll, paging,
                   cursor_value, stream_slice, stream_state, page, held,
                   slice_start, before>>

\* The runner takes the next slice and calls read_records with the state
\* the stream has at that moment.
NextSlice ==
    /\ UNCHANGED discovery_vars
    /\ pc = "slice"
    /\ slices # << >>
    /\ stream_slice' = Head(slices)
    /\ slices' = Tail(slices)
    /\ stream_state' = IF Incremental(kind) THEN state_getter(kind, cursor_value)
                       ELSE EmptyDict
    /\ token' = NoToken
    /\ slice_start' = cursor_value
    /\ pc' = "fetch"
    /\ UNCHANGED <<response, kind, project_ids, coll, paging, cursor_value,
                   page, held, requests, emitted, start_value, last_set, before>>

\* No slice is left: the pass is drained, and the generators' locals are gone.
EndPass ==
    /\ UNCHANGED discovery_vars
    /\ pc = "slice"
    /\ slices = << >>
    /\ pc' = "drained"
    /\ response' = NoResponse
    /\ token' = NoToken
    /\ stream_slice' = NoSlice
    /\ stream_state' = EmptyDict
    /\ held' = EmptyDict
    /\ slice_start' = << >>
    /\ UNCHANGED <<kind, project_ids, coll, paging, cursor_value, slices,
                   page, requests, emitted, start_value, last_set, before>>

\* HttpStream.read_records: build the request, send it, parse the response.
Fetch ==
    /\ UNCHANGED discovery_vars
    /\ pc = "fetch"
    /\ LET params == request_params(kind, cursor_value, stream_state,
                                    stream_slice, token)
           where == path(kind, stream_slice)
           resp == ServerRespond(kind, coll[where.project], paging, params)
       IN /\ requests' = Append(requests, [path |-> where, params |-> params,
                                            mark |-> slice_start])
          /\ response' = resp
          /\ page' = parse_response(kind, resp)
    /\ pc' = "yield"
    /\ UNCHANGED <<token, kind, project_ids, coll, paging, cursor_value,
                   slices, stream_slice, stream_state, held, emitted,
                   start_value, slice_start, last_set, before>>

\* The next record of the page is yielded to the consumer.  The generator of
\* an incremental stream is suspended at its yield.
YieldRecord ==
    /\ UNCHANGED discovery_vars
    /\ pc = "yield"
    /\ page # << >>
    /\ held' = Head(page)
    /\ page' = Tail(page)
    /\ emitted' = Append(emitted, Head(page))
    /\ pc' = IF Incremental(kind) THEN "resume" ELSE "yield"
    /\ UNCHANGED <<response, token, kind, project_ids, coll, paging,
                   cursor_value, slices, stream_slice, stream_state, requests,
                   start_value, slice_start, last_set, before>>

\* The consumer asks for the next item: the generator resumes after its
\* yield and advances the cursor.
Advance ==
    /\ UNCHANGED discovery_vars
    /\ pc = "resume"
    /\ cursor_value' = advance(kind, cursor_value, held)
    /\ pc' = "yield"
    /\ UNCHANGED <<response, token, kind, project_ids, coll, paging, slices,
                   stream_slice, stream_state, page, held, requests, emitted,
                   start_value, slice_start, last_set, before>>

\* The page is exhausted: next_page_token decides between another fetch and
\* the end of the slice.
Paginate ==
    /\ UNCHANGED discovery_vars
    /\ pc = "yield"
    /\ page = << >>
    /\ token' = next_page_token(response)
    /\ pc' = IF token' = KeyError THEN "raised"
             ELSE IF TruthyDict(token') THEN "fetch"
             ELSE "slice"
    /\ UNCHANGED <<response, kind, project_ids, coll, paging, cursor_value,
                   slices, stream_slice, stream_state, page, held, requests,
                   emitted, start_value, slice_start, last_set, before>>

\* The sync is interrupted during a pass: what was checkpointed is the state
\* of that moment, and the generators are discarded.  A record counts as
\* observed once the statement after its yield has run.
Interrupt ==
    /\ UNCHANGED discovery_vars
    /\ pc \in {"slice", "fetch", "yield", "resume"}
    /\ ~before.valid
    /\ before' = [valid |-> TRUE,
                  checkpoint |-> state_getter(kind, cursor_value),
                  emitted |-> emitted,
                  observed |-> IF pc = "resume"
                               THEN SubSeq(emitted, 1, Len(emitted) - 1)
                               ELSE emitted]
    /\ pc' = "interrupted"
    /\ response' = NoResponse
    /\ token' = NoToken
    /\ slices' = << >>
    /\ stream_slice' = NoSlice
    /\ stream_state' = EmptyDict
    /\ page' = << >>
    /\ held' = EmptyDict
    /\ slice_start' = << >>
    /\ UNCHANGED <<kind, project_ids, coll, paging, cursor_value, requests,
                   emitted, start_value, last_set>>

\* The next sync: a new stream object (__init__) that is assigned the
\* checkpointed state.
Resume ==
    /\ UNCHANGED discovery_vars
    /\ pc = "interrupted"
    /\ cursor_value' = state_setter(kind, << >>, before.checkpoint)
    /\ pc' = "idle"
    /\ requests' = << >>
    /\ emitted' = << >>
    /\ start_value' = cursor_value'
    /\ UNCHANGED <<response, token, kind, project_ids, coll, paging, slices,
                   stream_slice, stream_state, page, held, slice_start,
                   last_set, before>>

ReadStep == NextSlice \/ EndPass \/ Fetch \/ YieldRecord \/ Advance \/ Paginate

-----------------------------------------------------------------------------
(* Specification Spec: one incremental stream, built with a list of         *)
(* project ids, is seeded and read against a server whose collections and   *)
(* page size are drawn from the bounds.                                     *)

\* The source object plays no part: the stream was built directly.
NoDiscovery ==
    /\ listing = << >>
    /\ fails_at = -1
    /\ probe = << >>
    /\ caller = "none"
    /\ pos = 0
    /\ found = << >>
    /\ log = << >>
    /\ probed = << >>
    /\ catalog = << >>
    /\ check_result = NoResult
    /\ read_count = 0

SeqsUpTo(S, n) == UNION {[1..m -> S] : m \in 0..n}

RECURSIVE Total(_, _)
Total(f, n) == IF n = 0 THEN 0 ELSE Len(f[n]) + Total(f, n - 1)

\* The cursor values of the projects' records: at most MaxRecs in all.
StampChoices(n) ==
    {c \in [1..n -> SeqsUpTo(Stamps, MaxRecs)] : Total(c, n) <= MaxRecs}

Collections(k, c) ==
    [p \in DOMAIN c |-> [i \in 1..Len(c[p]) |-> ServerRecord(k, p, i, c[p][i])]]

PagingChoices ==
    {[paginated |-> FALSE, limit |-> 1]}
    \cup {[paginated |-> TRUE, limit |-> l] : l \in 1..MaxLimit}

Init ==
    /\ kind \in {"Stories", "Activity"}
    /\ \E n \in 0..Len(AllProjects) :
          /\ project_ids = SubSeq(AllProjects, 1, n)
          /\ \E c \in StampChoices(n) : coll = Collections(kind, c)
    /\ paging \in PagingChoices
    /\ cursor_value = << >>
    /\ pc = "idle"
    /\ response = NoResponse
    /\ token = NoToken
    /\ slices = << >>
    /\ stream_slice = NoSlice
    /\ stream_state = EmptyDict
    /\ page = << >>
    /\ held = EmptyDict
    /\ requests = << >>
    /\ emitted = << >>
    /\ start_value = << >>
    /\ slice_start = << >>
    /\ last_set = NotSet
    /\ before = NotResumed
    /\ NoDiscovery

Next ==
    \/ \E value \in StateInputs : SetState(value)
    \/ StartPass
    \/ NextSlice
    \/ EndPass
    \/ Fetch
    \/ YieldRecord
    \/ Advance
    \/ Paginate

Spec == Init /\ [][Next]_vars

-----------------------------------------------------------------------------
(* Specification SpecPaginator: next_page_token applied to a response with  *)
(* any subset of the four pagination headers, each with any of the header   *)
(* texts.                                                                   *)

HeaderNames == {HTotal, HLimit, HReturned, HOffset}

HeaderChoices == UNION {[names -> HeaderTexts] : names \in SUBSET HeaderNames}

InitPaginator ==
    /\ \E h \in HeaderChoices : response = [headers |-> h, body |-> << >>]
    /\ token = Pending
    /\ pc = "paginator"
    /\ kind = "Projects"
    /\ project_ids = << >>
    /\ coll = << >>
    /\ paging = [paginated |-> TRUE, limit |-> 1]
    /\ cursor_value = << >>
    /\ slices = << >>
    /\ stream_slice = NoSlice
    /\ stream_state = EmptyDict
    /\ page = << >>
    /\ held = EmptyDict
    /\ requests = << >>
    /\ emitted = << >>
    /\ start_value = << >>
    /\ slice_start = << >>
    /\ last_set = NotSet
    /\ before = NotResumed
    /\ NoDiscovery

\* token = stream.next_page_token(response)
CallNextPageToken ==
    /\ UNCHANGED discovery_vars
    /\ pc = "paginator"
    /\ token = Pending
    /\ token' = next_page_token(response)
    /\ UNCHANGED <<response, kind, project_ids, coll, paging, cursor_value,
                   pc, slices, stream_slice, stream_state, page, held,
                   requests, emitted, start_value, slice_start, last_set, before>>

NextPaginator == CallNextPageToken

SpecPaginator == InitPaginator /\ [][NextPaginator]_vars

-----------------------------------------------------------------------------
(* Specification SpecResume: a first sync without a supplied state is       *)
(* interrupted at any point of its pass and the next sync is seeded with    *)
(* the state checkpointed there.                                            *)

NextResume ==
    \/ StartPass
    \/ NextSlice
    \/ EndPass
    \/ Fetch
    \/ YieldRecord
    \/ Advance
    \/ Paginate
    \/ Interrupt
    \/ Resume

SpecResume == Init /\ [][NextResume]_vars

-----------------------------------------------------------------------------
(* SourcePivotalTracker: discovery of the accessible projects, the          *)
(* connection check and the stream catalog.                                 *)

\* Most records the projects listing holds.
MaxListing == 2
\* The project ids the listing can name.
ProjectIdSet == {1, 2}
\* What the detail request of a project does: it returns the project, it
\* fails with an HTTP error, or it returns no record at all.
ProbeOutcomes == {"record", "error", "empty"}

check_project_availability_http_only(outcome) ==
    CASE outcome = "record" -> [returned |-> TRUE, logged |-> FALSE, raised |-> FALSE]
      [] outcome = "error" -> [returned |-> FALSE, logged |-> TRUE, raised |-> FALSE]
      [] outcome = "empty" -> [returned |-> FALSE, logged |-> FALSE, raised |-> TRUE]

check_project_availability_accepts_empty(outcome) ==
    CASE outcome = "record" -> [returned |-> TRUE, logged |-> FALSE, raised |-> FALSE]
      [] outcome = "error" -> [returned |-> FALSE, logged |-> TRUE, raised |-> FALSE]
      [] outcome = "empty" -> [returned |-> TRUE, logged |-> FALSE, raised |-> FALSE]

\* _check_project_availability: next(project.read_records(...)) inside
\* try/except Exception.  An HTTP error and the StopIteration of an empty
\* read are both caught and logged.
check_project_availability(outcome) ==
    CASE outcome = "record" -> [returned |-> TRUE, logged |-> FALSE, raised |-> FALSE]
      [] outcome = "error" -> [returned |-> FALSE, logged |-> TRUE, raised |-> FALSE]
      [] outcome = "empty" -> [returned |-> FALSE, logged |-> TRUE, raised |-> FALSE]

streams_only_projects_when_empty(ids) ==
    IF ids = << >> THEN <<[kind |-> "Projects", project_ids |-> << >>]>>
    ELSE <<[kind |-> "Projects", project_ids |-> << >>],
           [kind |-> "Stories", project_ids |-> ids],
           [kind |-> "ProjectMemberships", project_ids |-> ids],
           [kind |-> "Labels", project_ids |-> ids],
           [kind |-> "Releases", project_ids |-> ids],
           [kind |-> "Epics", project_ids |-> ids],
           [kind |-> "Activity", project_ids |-> ids]>>

streams_epics_without_first(ids) ==
    <<[kind |-> "Projects", project_ids |-> << >>],
      [kind |-> "Stories", project_ids |-> ids],
      [kind |-> "ProjectMemberships", project_ids |-> ids],
      [kind |-> "Labels", project_ids |-> ids],
      [kind |-> "Releases", project_ids |-> ids],
      [kind |-> "Epics", project_ids |-> IF ids = << >> THEN ids ELSE Tail(ids)],
      [kind |-> "Activity", project_ids |-> ids]>>

\* streams(): the catalog built from the discovered project ids.  Projects
\* takes no project ids.
streams(ids) ==
    <<[kind |-> "Projects", project_ids |-> << >>],
      [kind |-> "Stories", project_ids |-> ids],
      [kind |-> "ProjectMemberships", project_ids |-> ids],
      [kind |-> "Labels", project_ids |-> ids],
      [kind |-> "Releases", project_ids |-> ids],
      [kind |-> "Epics", project_ids |-> ids],
      [kind |-> "Activity", project_ids |-> ids]>>

check_connection_needs_a_project(ids) ==
    IF ids = << >> THEN <<FALSE, "no accessible project">> ELSE <<TRUE, "None">>

\* check_connection(): what it returns once _generate_project_ids has
\* returned ids, (True, None).
check_connection(ids) == <<TRUE, "None">>

\* check_connection(): self._generate_project_ids(auth), then its first
\* statement of the loop.
CallCheckConnection ==
    /\ pc = "init"
    /\ caller' = "check_connection"
    /\ pos' = 0
    /\ found' = << >>
    /\ log' = << >>
    /\ probed' = << >>
    /\ pc' = "discover"
    /\ UNCHANGED <<read_vars, listing, fails_at, probe, catalog, check_result,
                   read_count>>

\* streams(): self._generate_project_ids(auth)
CallStreams ==
    /\ pc \in {"init", "checked"}
    /\ caller' = "streams"
    /\ pos' = 0
    /\ found' = << >>
    /\ log' = << >>
    /\ probed' = << >>
    /\ pc' = "discover"
    /\ UNCHANGED <<read_vars, listing, fails_at, probe, catalog, check_result,
                   read_count>>

\* _generate_project_ids, one turn of the loop: the listing yields a record
\* and the project is probed.
Probe ==
    /\ pc = "discover"
    /\ pos < Len(listing)
    /\ fails_at # pos
    /\ LET project_id == listing[pos + 1]["id"]
           got == check_project_availability(probe[project_id])
       IN /\ probed' = Append(probed, project_id)
          /\ log' = IF got.logged THEN Append(log, project_id) ELSE log
          /\ found' = IF ~got.raised /\ got.returned THEN Append(found, project_id)
                      ELSE found
          /\ pc' = IF got.raised THEN "raised" ELSE "discover"
    /\ pos' = pos + 1
    /\ UNCHANGED <<read_vars, listing, fails_at, probe, caller, catalog,
                   check_result, read_count>>

\* The listing raises when asked for its next record: nothing catches it.
ListingRaises ==
    /\ pc = "discover"
    /\ fails_at = pos
    /\ pc' = "raised"
    /\ UNCHANGED <<read_vars, discovery_vars>>

\* The listing is exhausted: _generate_project_ids returns, and its caller
\* returns (True, None) or the catalog.
ReturnProjectIds ==
    /\ pc = "discover"
    /\ pos = Len(listing)
    /\ fails_at # pos
    /\ IF caller = "check_connection"
       THEN /\ check_result' = check_connection(found)
            /\ pc' = "checked"
            /\ UNCHANGED catalog
       ELSE /\ catalog' = streams(found)
            /\ pc' = "catalog"
            /\ UNCHANGED check_result
    /\ read_count' = 0
    /\ UNCHANGED <<read_vars, listing, fails_at, probe, caller, pos, found, log,
                   probed>>

\* The runner takes the next stream of the catalog, a stream object as its
\* constructor left it.
TakeStream ==
    /\ pc \in {"catalog", "drained"}
    /\ read_count < Len(catalog)
    /\ read_count' = read_count + 1
    /\ kind' = catalog[read_count + 1].kind
    /\ project_ids' = catalog[read_count + 1].project_ids
    /\ cursor_value' = << >>
    /\ requests' = << >>
    /\ emitted' = << >>
    /\ start_value' = << >>
    /\ pc' = "idle"
    /\ UNCHANGED <<response, token, coll, paging, slices, stream_slice,
                   stream_state, page, held, slice_start, last_set, before,
                   listing, fails_at, probe, caller, pos, found, log, probed,
                   catalog, check_result>>

-----------------------------------------------------------------------------
(* Specification SpecCatalog: the source discovers the projects of a        *)
(* listing drawn from the bounds, with any outcome of each probe, and the   *)
(* runner reads the streams of the catalog in turn, seeding the incremental *)
(* ones with any state.                                                     *)

ListingChoices ==
    UNION {[1..n -> {"id" :> p : p \in ProjectIdSet}] : n \in 0..MaxListing}

\* The one record each project holds in each of its collections.
CatalogRecord(p) ==
    ("id" :> (10 * p + 1)) @@ ("updated_at" :> <<2, 0, 2, 0>>)
    @@ ("occurred_at" :> <<2, 0, 2, 0>>) @@ ("project" :> ("id" :> p))

InitCatalog ==
    /\ listing \in ListingChoices
    /\ fails_at \in -1..Len(listing)
    /\ probe \in [ProjectIdSet -> ProbeOutcomes]
    /\ coll = [p \in {0} \cup ProjectIdSet |->
                  IF p = 0 THEN listing ELSE <<CatalogRecord(p)>>]
    /\ \E l \in 1..MaxLimit : paging = [paginated |-> TRUE, limit |-> l]
    /\ caller = "none"
    /\ pos = 0
    /\ found = << >>
    /\ log = << >>
    /\ probed = << >>
    /\ catalog = << >>
    /\ check_result = NoResult
    /\ read_count = 0
    /\ pc = "init"
    /\ kind = "Projects"
    /\ project_ids = << >>
    /\ cursor_value = << >>
    /\ response = NoResponse
    /\ token = NoToken
    /\ slices = << >>
    /\ stream_slice = NoSlice
    /\ stream_state = EmptyDict
    /\ page = << >>
    /\ held = EmptyDict
    /\ requests = << >>
    /\ emitted = << >>
    /\ start_value = << >>
    /\ slice_start = << >>
    /\ last_set = NotSet
    /\ before = NotResumed

NextCatalog ==
    \/ CallCheckConnection
    \/ CallStreams
    \/ Probe
    \/ ListingRaises
    \/ ReturnProjectIds
    \/ TakeStream
    \/ \E value \in StateInputs : SetState(value)
    \/ StartPass
    \/ NextSlice
    \/ EndPass
    \/ Fetch
    \/ YieldRecord
    \/ Advance
    \/ Paginate

SpecCatalog == InitCatalog /\ [][NextCatalog]_vars

-----------------------------------------------------------------------------
(* Specification SpecExtractor: parse_response applied to a response whose  *)
(* body is any array of up to MaxBody records, each with or without a       *)
(* project sub-object and with or without a project_id of its own.          *)

\* Most records in the body handed to parse_response.
MaxBody == 2

\* The records a body is made of: {id: 5} or {id: 6}, with project absent,
\* {id: 1} or {id: 42}, and project_id absent or 7.
RecordChoices ==
    {("id" :> i) @@ p @@ q :
        i \in {5, 6},
        p \in {EmptyDict, "project" :> ("id" :> 1), "project" :> ("id" :> 42)},
        q \in {EmptyDict, "project_id" :> 7}}

InitExtractor ==
    /\ kind \in {"Activity", "Epics"}
    /\ \E body \in SeqsUpTo(RecordChoices, MaxBody) :
          response = [headers |-> EmptyDict, body |-> body]
    /\ page = << >>
    /\ pc = "extractor"
    /\ token = NoToken
    /\ project_ids = << >>
    /\ coll = << >>
    /\ paging = [paginated |-> FALSE, limit |-> 1]
    /\ cursor_value = << >>
    /\ slices = << >>
    /\ stream_slice = NoSlice
    /\ stream_state = EmptyDict
    /\ held = EmptyDict
    /\ requests = << >>
    /\ emitted = << >>
    /\ start_value = << >>
    /\ slice_start = << >>
    /\ last_set = NotSet
    /\ before = NotResumed
    /\ NoDiscovery

\* page = list(stream.parse_response(response))
CallParseResponse ==
    /\ UNCHANGED discovery_vars
    /\ pc = "extractor"
    /\ page' = parse_response(kind, response)
    /\ pc' = "extracted"
    /\ UNCHANGED <<response, token, kind, project_ids, coll, paging,
                   cursor_value, slices, stream_slice, stream_state, held,
                   requests, emitted, start_value, slice_start, last_set, before>>

NextExtractor == CallParseResponse

SpecExtractor == InitExtractor /\ [][NextExtractor]_vars

-----------------------------------------------------------------------------
(* Claims.                                                                  *)

\* The number a header text denotes, by the server's formatting.
HeaderNumber(text) == CHOOSE n \in 0..99 : StrOf(n) = text

\* C1: next_page_token is decided by the pagination headers alone: without
\* the total header the result is None whatever the other headers hold; with
\* it and integer limit, returned and offset the result is None when
\* returned < limit and {offset: offset + limit} when returned = limit.
C1_TokenFromHeaders ==
    (pc = "paginator" /\ token # Pending) =>
        LET h == response.headers IN
        /\ HTotal \notin DOMAIN h => token = NoToken
        /\ HeaderNames \subseteq DOMAIN h =>
              LET limit == HeaderNumber(h[HLimit])
                  returned == HeaderNumber(h[HReturned])
                  offset == HeaderNumber(h[HOffset])
              IN /\ returned < limit => token = NoToken
                 /\ returned = limit => token = [offset |-> offset + limit]

\* C1, witness: a full page (returned = limit > 0) has been answered with the
\* next offset.
C1_Witness ==
    /\ pc = "paginator"
    /\ token # Pending
    /\ HeaderNames \subseteq DOMAIN response.headers
    /\ response.headers[HLimit] = response.headers[HReturned]
    /\ response.headers[HLimit] = <<2>>
    /\ response.headers[HOffset] = <<1, 0>>
    /\ token = [offset |-> 12]

\* The requests of the pass that address the slice being read.
SliceFetches ==
    Cardinality({i \in DOMAIN requests :
                    requests[i].path = path(kind, stream_slice)})

\* The records the server holds for the slice being read, under the filter
\* of the slice's first request.
SliceTotal ==
    Len(ServerSelect(kind, coll[path(kind, stream_slice).project],
                     request_params(kind, cursor_value, stream_state,
                                    stream_slice, NoToken)))

\* The fetches a slice of N records needs at page size L: N div L + 1.
FetchesNeeded ==
    IF paging.paginated THEN (SliceTotal \div paging.limit) + 1 ELSE 1

InSlice == pc \in {"fetch", "yield", "resume"}

\* A measure of the work left in the slice: fetches still to make, then
\* records of the page still to yield, then the position within one record.
Variant ==
    (FetchesNeeded - SliceFetches) * (3 * (MaxRecs + MaxLimit) + 2)
    + 3 * Len(page)
    + (CASE pc = "resume" -> 2 [] pc = "yield" -> 1 [] OTHER -> 0)

\* C2: the pagination of one slice terminates.  Every step taken while a
\* slice is read lowers a measure that never goes below zero, a step is
\* always possible until the slice ends, and the slice ends only on a page
\* with returned < limit (or on the single page of an endpoint that does not
\* paginate): there is no endless fetch loop.
C2_PaginationTerminates ==
    /\ [][InSlice => /\ Variant' < Variant
                     /\ Variant' >= 0
                     /\ pc' = "slice" =>
                           \/ ~paging.paginated
                           \/ Len(response.body) < paging.limit]_vars
    /\ [](InSlice => ENABLED ReadStep)

\* C2, witness: a page that exactly filled the limit was followed by an
\* empty page, on which the slice ended.
C2_Witness ==
    /\ pc = "slice"
    /\ paging.paginated
    /\ SliceFetches >= 2
    /\ response.body = << >>
    /\ emitted # << >>

\* The cursor values of a sequence of records.
CursorsOf(records) == {records[i][cursor_field(kind)] : i \in DOMAIN records}

\* The greatest string of a non-empty set.
Greatest(S) == CHOOSE x \in S : \A y \in S : ~StrLess(x, y)

\* C3: once a read pass is drained, the state is the greatest, by string
\* comparison, of the watermark the pass began with and the cursor values of
\* all records read, whatever their order and over all slices ("" reads as no
\* value recorded).
C3_StateIsMaximum ==
    pc = "drained" =>
        DictGet(state_getter(kind, cursor_value), cursor_field(kind), << >>)
            = Greatest({start_value} \cup CursorsOf(emitted))

\* C3, witness: a drained pass over two slices whose records did not arrive
\* in cursor order and whose last record is not the latest.
C3_Witness ==
    /\ pc = "drained"
    /\ Len(emitted) = 3
    /\ StrLess(emitted[2][cursor_field(kind)], emitted[1][cursor_field(kind)])
    /\ StrLess(emitted[3][cursor_field(kind)], emitted[1][cursor_field(kind)])
    /\ Cardinality({requests[i].path : i \in DOMAIN requests}) = 2

SetStateStep == \E value \in StateInputs : SetState(value)

\* C4 as claimed: over any sequence of state assignments and record
\* observations the watermark of a later state is never smaller than that of
\* an earlier state.
C4_NeverMovesBack == [][~StrLess(cursor_value', cursor_value)]_vars

\* C4, amended: no step of a read pass moves the watermark back; only an
\* assignment to the state can.
C4_ReadsNeverMoveBack ==
    [][SetStateStep \/ ~StrLess(cursor_value', cursor_value)]_vars

\* C4, witness: a record older than the watermark has been observed, and the
\* watermark has stayed.
C4_Witness ==
    /\ pc = "yield"
    /\ emitted # << >>
    /\ held = emitted[Len(emitted)]
    /\ StrLess(held[cursor_field(kind)], cursor_value)

\* C5: the state assigned as {cursor_field: v} reads back as {cursor_field: v}
\* when nothing was read in between.
C5_StateRoundTrip ==
    (last_set.valid /\ DOMAIN last_set.value = {cursor_field(kind)}) =>
        state_getter(kind, cursor_value) = last_set.value

\* C5, witness: an Activity stream over a non-empty project list was assigned
\* {occurred_at: "2019-..."} and holds that value.
C5_Witness ==
    /\ last_set.valid
    /\ kind = "Activity"
    /\ DOMAIN last_set.value = {"occurred_at"}
    /\ cursor_value = <<2, 0, 1, 9>>
    /\ project_ids # << >>

\* The records of project p as the stream emits them.
Parsed(p) == parse_response(kind, [headers |-> EmptyDict, body |-> coll[p]])

Elements(seq) == {seq[i] : i \in DOMAIN seq}

\* C6: a sync resumed from the state checkpointed at an interruption starts
\* strictly after the last fully observed record (it emits no record that was
\* observed before the interruption) and skips no record whose cursor value
\* is equal to or later than the checkpointed watermark (each such record of
\* each slice was emitted before the interruption or is emitted after it).
C6_ResumeSkipsNothing ==
    (pc = "drained" /\ before.valid) =>
        LET mark == DictGet(before.checkpoint, cursor_field(kind), << >>) IN
        /\ Elements(emitted) \cap Elements(before.observed) = {}
        /\ \A p \in DOMAIN coll : \A r \in Elements(Parsed(p)) :
              ~StrLess(r[cursor_field(kind)], mark) =>
                  r \in Elements(before.emitted) \cup Elements(emitted)

\* The filter a request carries for watermark w: the watermark, or None when
\* none was recorded.
FilterFor(w) == IF w = << >> THEN NoneVal ELSE w

\* C7 as claimed: every request of a pass carries the cursor filter equal to
\* the watermark at the start of the slice's read, the epoch default when no
\* state was supplied.
C7_FilterIsStartWatermarkOrEpoch ==
    \A i \in DOMAIN requests :
        /\ cursor_filter(kind) \in DOMAIN requests[i].params
        /\ requests[i].params[cursor_filter(kind)]
              = (IF requests[i].mark = << >> THEN Epoch ELSE requests[i].mark)

\* C7, amended: every request of a pass carries the cursor filter equal to
\* the watermark at the start of the slice's read, the same on all pages of
\* the slice while the watermark advances; it is None, not the epoch default,
\* as long as no watermark was recorded.
C7_FilterIsStartWatermark ==
    \A i \in DOMAIN requests :
        /\ cursor_filter(kind) \in DOMAIN requests[i].params
        /\ requests[i].params[cursor_filter(kind)] = FilterFor(requests[i].mark)

\* C7, witness: a continuation request of a seeded pass was sent after the
\* watermark had advanced past the one the slice began with.
C7_Witness ==
    /\ pc = "yield"
    /\ requests # << >>
    /\ "offset" \in DOMAIN requests[Len(requests)].params
    /\ requests[Len(requests)].mark = <<2, 0, 1, 9>>
    /\ requests[Len(requests)].mark # cursor_value

\* The project ids of the listing, in its order.
ListingIds == [i \in 1..Len(listing) |-> listing[i]["id"]]

\* The project ids whose probe does not return a record.
Failing(ids) == SelectSeq(ids, LAMBDA p : probe[p] # "record")

DiscoveryDone == pc \notin {"init", "discover", "raised"}

\* C8: a failing probe never aborts discovery.  Whatever the listing and
\* whichever of its projects fail their probe (by an error or by returning
\* no record), each failure is logged and none propagates, every listed
\* project is still probed, and discovery completes, as long as the listing
\* itself does not raise.
C8_ProbeFailureDoesNotAbort ==
    caller # "none" =>
        /\ probed = SubSeq(ListingIds, 1, pos)
        /\ log = Failing(probed)
        /\ fails_at = -1 =>
              /\ pc # "raised"
              /\ DiscoveryDone => probed = ListingIds

\* C8, witness: streams() has its catalog although the probe of the first
\* listed project raised and that of the second returned no record; both
\* were probed and logged.
C8_Witness ==
    /\ pc = "catalog"
    /\ ListingIds = <<1, 2>>
    /\ probe[1] = "error"
    /\ probe[2] = "empty"
    /\ probed = <<1, 2>>
    /\ log = <<1, 2>>

\* The pass has just taken its slices from stream_slices.
JustSliced == pc = "slice" /\ requests = << >>

\* C9 as claimed: a project-scoped stream built with N project ids yields
\* exactly N slices {project_id: p} in the order of the list, each with a
\* project_id of its own; none for the empty list.
C9_SlicesDistinct ==
    (JustSliced /\ kind \in ProjectScoped) =>
        /\ Len(slices) = Len(project_ids)
        /\ \A i \in DOMAIN slices : slices[i] = ("project_id" :> project_ids[i])
        /\ \A i, j \in DOMAIN slices :
              i # j => slices[i]["project_id"] # slices[j]["project_id"]

\* C9, amended: a project-scoped stream built with N project ids yields
\* exactly N slices, the i-th being {project_id: ids[i]}, and none for the
\* empty list; an id that occurs twice in the list yields two slices, so the
\* project_ids of the slices are distinct exactly when the ids are.
C9_SlicesFollowList ==
    (JustSliced /\ kind \in ProjectScoped) =>
        /\ Len(slices) = Len(project_ids)
        /\ \A i \in DOMAIN slices : slices[i] = ("project_id" :> project_ids[i])
        /\ \A i, j \in DOMAIN slices :
              (slices[i]["project_id"] = slices[j]["project_id"])
                  <=> (project_ids[i] = project_ids[j])

\* C9, witness: a stream built with two different project ids has yielded
\* its two slices.
C9_Witness ==
    /\ JustSliced
    /\ kind = "Labels"
    /\ project_ids = <<2, 1>>
    /\ slices = <<("project_id" :> 2), ("project_id" :> 1)>>

CatalogKinds == [i \in 1..Len(catalog) |-> catalog[i].kind]

\* C10: when discovery finds no accessible project, streams() still returns
\* the whole catalog, Projects and the six project-scoped streams; a
\* project-scoped stream that is read has no slice, sends no request and
\* emits no record, and the Projects stream is read as usual: drained, it has
\* sent its request and emitted every record of the listing.
C10_EmptyDiscovery ==
    (catalog # << >> /\ found = << >>) =>
        /\ CatalogKinds = <<"Projects", "Stories", "ProjectMemberships",
                            "Labels", "Releases", "Epics", "Activity">>
        /\ \A i \in 2..Len(catalog) : catalog[i].project_ids = << >>
        /\ (read_count > 0 /\ kind \in ProjectScoped) =>
              /\ slices = << >>
              /\ requests = << >>
              /\ emitted = << >>
              /\ pc \in {"idle", "slice", "drained"}
        /\ (read_count > 0 /\ kind = "Projects" /\ pc = "drained") =>
              /\ requests # << >>
              /\ emitted = listing

\* C10, witness: no listed project was accessible, the Projects stream has
\* emitted the two listed projects, and the last project-scoped stream has
\* been drained without a request.
C10_Witness ==
    /\ catalog # << >>
    /\ found = << >>
    /\ Len(listing) = 2
    /\ read_count = 7
    /\ kind = "Activity"
    /\ pc = "drained"
    /\ requests = << >>

\* The steps of _generate_project_ids.
DiscoveryStep == Probe \/ ListingRaises \/ ReturnProjectIds

\* C11: check_connection returns (True, None) whenever discovery runs to
\* completion, whatever the number of accessible projects, none included and
\* every probe having failed included: while it runs a step is always
\* possible, it raises only where the listing raises, and once it is over
\* without that the result is (True, None).  When the listing raises, the
\* exception leaves check_connection and no result is ever returned.
C11_CheckConnection ==
    caller = "check_connection" =>
        /\ pc \in {"discover", "raised", "checked"}
        /\ pc = "discover" => ENABLED DiscoveryStep
        /\ pc = "raised" => (fails_at = pos /\ check_result = NoResult)
        /\ pc = "checked" => (fails_at = -1 /\ check_result = <<TRUE, "None">>)
        /\ (pc = "discover" /\ fails_at = pos) =>
              (~ENABLED Probe /\ ~ENABLED ReturnProjectIds)

\* C11, witness: check_connection has returned (True, None) although both
\* listed projects failed their probe and no project is accessible.
C11_Witness ==
    /\ caller = "check_connection"
    /\ pc = "checked"
    /\ check_result = <<TRUE, "None">>
    /\ Len(listing) = 2
    /\ Len(log) = 2
    /\ found = << >>

\* C12: the Activity extractor yields one record per element of the response
\* array, in its order; a record with a project sub-object gains a top-level
\* project_id equal to project.id and keeps every other field, and a record
\* without a project key comes out as it went in.
C12_ActivityLiftsProjectId ==
    (pc = "extracted" /\ kind = "Activity") =>
        /\ Len(page) = Len(response.body)
        /\ \A i \in DOMAIN page :
              LET r == response.body[i]
                  out == page[i]
              IN IF "project" \in DOMAIN r
                 THEN /\ DOMAIN out = DOMAIN r \cup {"project_id"}
                      /\ out["project_id"] = r["project"]["id"]
                      /\ \A f \in DOMAIN r \ {"project_id"} : out[f] = r[f]
                 ELSE out = r

\* C12, witness: the body [{id: 5, project: {id: 42}}, {id: 6}] came out as
\* [{id: 5, project: {id: 42}, project_id: 42}, {id: 6}].
C12_Witness ==
    /\ pc = "extracted"
    /\ kind = "Activity"
    /\ response.body = <<("id" :> 5) @@ ("project" :> ("id" :> 42)), "id" :> 6>>
    /\ page = <<("id" :> 5) @@ ("project" :> ("id" :> 42))
                  @@ ("project_id" :> 42),
                "id" :> 6>>

\* What the server answers to a request of the pass.
ResponseTo(req) == ServerRespond(kind, coll[req.path.project], paging, req.params)

\* The ids of a sequence of records.
IdsOf(records) == [i \in DOMAIN records |-> records[i]["id"]]

\* The ids of the records served in answer to the first n requests of the
\* pass, in the order they were served.
RECURSIVE ServedIds(_)
ServedIds(n) ==
    IF n = 0 THEN << >>
    ELSE ServedIds(n - 1) \o IdsOf(ResponseTo(requests[n]).body)

\* The answer to request i was the last page of its slice.
LastPage(i) ==
    \/ ~paging.paginated
    \/ Len(ResponseTo(requests[i]).body) < paging.limit

\* The requests that open a slice: those without an offset.
Openers == SelectSeq(requests, LAMBDA req : "offset" \notin DOMAIN req.params)

\* C13: the records handed out, followed by those of the current page still
\* to hand out, are the records the server returned, page after page, in the
\* order it returned them: nothing is reordered and nothing is dropped, a
\* repeated record included.  The pages of a slice are fetched at ascending
\* offsets, and a slice is opened only after the last page of the slice
\* before it, the slices following the order of the project ids.
C13_OrderKept ==
    /\ IdsOf(emitted \o page) = ServedIds(Len(requests))
    /\ \A i \in DOMAIN requests :
          IF "offset" \in DOMAIN requests[i].params
          THEN /\ i > 1
               /\ requests[i].path = requests[i - 1].path
               /\ ~LastPage(i - 1)
               /\ requests[i].params["offset"]
                     > DictGet(requests[i - 1].params, "offset", 0)
          ELSE i > 1 => LastPage(i - 1)
    /\ \A j \in DOMAIN Openers :
          Openers[j].path.project
              = (IF kind = "Projects" THEN 0 ELSE project_ids[j])

\* C13, witness: the listing [{id: 2}, {id: 1}], served one record a page,
\* was emitted as 2, 1 by three fetches.
C13_Witness ==
    /\ kind = "Projects"
    /\ pc = "drained"
    /\ read_count = 1
    /\ paging.limit = 1
    /\ IdsOf(listing) = <<2, 1>>
    /\ IdsOf(emitted) = <<2, 1>>
    /\ Len(requests) = 3

\* Request i is the first of its slice.
OpensSlice(i) == i = 1 \/ requests[i].path # requests[i - 1].path

\* The slices of the pass whose first request has been sent.
SlicesOpened ==
    Len(project_ids) - Len(slices)
    - (IF pc = "fetch" /\ token = NoToken THEN 1 ELSE 0)

\* C14: within the pagination of one slice every continuation request
\* carries offset = previous offset + limit, which is greater than the
\* previous offset; the first request of every slice carries no offset,
\* whatever offset the slice before ended on, and only continuation requests
\* carry one.
C14_OffsetPerSlice ==
    /\ \A i \in DOMAIN requests :
          IF OpensSlice(i)
          THEN "offset" \notin DOMAIN requests[i].params
          ELSE /\ "offset" \in DOMAIN requests[i].params
               /\ requests[i].params["offset"]
                     = DictGet(requests[i - 1].params, "offset", 0) + paging.limit
               /\ requests[i].params["offset"]
                     > DictGet(requests[i - 1].params, "offset", 0)
    /\ pc \in {"slice", "fetch", "yield", "resume", "drained"} =>
          Len(Openers) = SlicesOpened

\* C14, witness: the first slice ended on a request with offset 2, and the
\* first request of the second slice has been sent without an offset.
C14_Witness ==
    /\ pc = "yield"
    /\ Len(requests) >= 4
    /\ requests[Len(requests)].path # requests[Len(requests) - 1].path
    /\ "offset" \notin DOMAIN requests[Len(requests)].params
    /\ DictGet(requests[Len(requests) - 1].params, "offset", 0) = 2

\* The records of the pass whose cursor update has run.
Observed ==
    IF pc = "resume" THEN SubSeq(emitted, 1, Len(emitted) - 1) ELSE emitted

\* No value was ever recorded: none assigned, none before the pass, and no
\* record observed in it.
NeverRecorded == ~last_set.valid /\ start_value = << >> /\ Observed = << >>

\* C15: the state reads as {} while no value was ever recorded and as
\* {cursor_field: watermark} afterwards; an assignment of value makes the
\* watermark value[cursor_field] when the key is there and the epoch default
\* when it is not, so that after an assignment of {} the state reads as
\* {cursor_field: "1970-01-01T00:00:00"}.
C15_StateOperations ==
    LET cf == cursor_field(kind)
        got == state_getter(kind, cursor_value)
    IN /\ NeverRecorded => got = EmptyDict
       /\ ~NeverRecorded => (got = (cf :> cursor_value) /\ cursor_value # << >>)
       /\ last_set.valid =>
             cursor_value = (IF cf \in DOMAIN last_set.value
                             THEN last_set.value[cf] ELSE Epoch)
       /\ (last_set.valid /\ last_set.value = EmptyDict) => got = (cf :> Epoch)

\* C15, witness: a Stories stream over a server that holds records was
\* assigned {} and reads as {updated_at: "1970-01-01T00:00:00"}.
C15_Witness ==
    /\ kind = "Stories"
    /\ last_set.valid
    /\ last_set.value = EmptyDict
    /\ state_getter(kind, cursor_value) = ("updated_at" :> Epoch)
    /\ coll # << >>

\* The ids among ids whose probe returns a record.
Accessible(ids) == SelectSeq(ids, LAMBDA p : probe[p] = "record")

\* C16: discovery returns the listed project ids whose probe raised nothing
\* and returned a record, in the order of the listing.  Each entry of the
\* listing is probed once, in turn, the ids collected so far are the
\* accessible ones among the entries consumed, and what is returned, and
\* given to the project-scoped streams, is the accessible subsequence of the
\* whole listing; a probe without a record keeps its project out.
C16_AccessibleInListingOrder ==
    caller # "none" =>
        /\ Len(probed) = pos
        /\ \A i \in 1..pos : probed[i] = listing[i]["id"]
        /\ found = Accessible(SubSeq(ListingIds, 1, pos))
        /\ DiscoveryDone => found = Accessible(ListingIds)
        /\ catalog # << >> =>
              \A i \in 2..Len(catalog) :
                  catalog[i].project_ids = Accessible(ListingIds)

\* C16, witness: of the listing 2, 1 the probe of project 2 returned no
\* record and that of project 1 a record; streams() got [1].
C16_Witness ==
    /\ pc = "catalog"
    /\ ListingIds = <<2, 1>>
    /\ probe[2] = "empty"
    /\ probe[1] = "record"
    /\ probed = <<2, 1>>
    /\ found = <<1>>
    /\ catalog[2].project_ids = <<1>>

\* C17: the project ids of a sync are fixed.  Once streams() has returned,
\* discovery has gone through the listing once, the six project-scoped
\* streams all hold the list it resolved, and the stream that is read holds
\* it too; no step taken afterwards (taking slices, reading records,
\* assigning or advancing the state) changes the catalog, the resolved list
\* or the list of the stream that is read, or probes a project again.
C17_ProjectIdsFixed ==
    /\ [](catalog # << >> =>
            /\ probed = ListingIds
            /\ \A i \in 2..Len(catalog) : catalog[i].project_ids = found
            /\ (read_count > 0 /\ kind \in ProjectScoped) => project_ids = found)
    /\ [][catalog # << >> =>
            /\ catalog' = catalog
            /\ found' = found
            /\ probed' = probed
            /\ pos' = pos
            /\ read_count' = read_count => project_ids' = project_ids]_vars

\* C17, witness: the last stream of the catalog, Activity, has been drained
\* over the two discovered projects after the five project-scoped streams
\* before it.
C17_Witness ==
    /\ read_count = 7
    /\ kind = "Activity"
    /\ pc = "drained"
    /\ found = <<1, 2>>
    /\ project_ids = <<1, 2>>
    /\ {requests[i].path.project : i \in DOMAIN requests} = {1, 2}
    /\ cursor_value # << >>

\* C18: the watermark lags the consumer by one record.  At every moment it
\* is the greatest of the value the pass began with and the cursor values of
\* the records whose successor the consumer has asked for, so it is never
\* later than what the consumer has received; when record k has just been
\* handed over it reflects records 1..k-1 only, and the state read at that
\* moment holds the value the pass began with or the cursor value of a
\* record received before.
C18_CheckpointLag ==
    /\ cursor_value = Greatest({start_value} \cup CursorsOf(Observed))
    /\ ~StrLess(Greatest({start_value} \cup CursorsOf(emitted)), cursor_value)
    /\ pc = "resume" =>
          /\ held = emitted[Len(emitted)]
          /\ DictGet(state_getter(kind, cursor_value), cursor_field(kind), << >>)
                \in {start_value} \cup CursorsOf(Observed)

\* C18, witness: the second record of a pass has just been handed over; it
\* is later than the first, and the watermark is still that of the first.
C18_Witness ==
    /\ pc = "resume"
    /\ Len(emitted) = 2
    /\ cursor_value = emitted[1][cursor_field(kind)]
    /\ cursor_value # start_value
    /\ StrLess(cursor_value, held[cursor_field(kind)])

\* C19: in a run over several slices that share the cursor, every record of
\* every slice that is later than the watermark the run began with has been
\* emitted when the run is drained.
C19_NoLossAcrossSlices ==
    pc = "drained" =>
        \A p \in DOMAIN coll : \A r \in Elements(Parsed(p)) :
            StrLess(start_value, r[cursor_field(kind)]) => r \in Elements(emitted)

\* A slice has just been read to its end.
SliceRead == pc = "slice" /\ stream_slice # NoSlice

\* The requests of the pass that address the slice just read.
SliceRequests ==
    SelectSeq(requests, LAMBDA req : req.path = path(kind, stream_slice))

\* The records the server holds for the slice just read, as selected by the
\* slice's first request: the N records of the claim.
SliceRecords ==
    ServerSelect(kind, coll[path(kind, stream_slice).project],
                 SliceRequests[1].params)

\* C20: a slice of N records read at page size L has taken N div L + 1
\* fetches, at offsets 0, L, 2L, ..., and exactly one fetch when the
\* responses carry no pagination headers; the records emitted for the slice
\* are the N records, in order, and no record of the pass was emitted twice.
C20_PaginationComplete ==
    SliceRead =>
        LET n == Len(SliceRecords)
            fetches == Len(SliceRequests)
        IN /\ fetches = (IF paging.paginated THEN (n \div paging.limit) + 1 ELSE 1)
           /\ \A j \in 1..fetches :
                 DictGet(SliceRequests[j].params, "offset", 0)
                     = (j - 1) * paging.limit
           /\ Len(emitted) >= n
           /\ SubSeq(emitted, Len(emitted) - n + 1, Len(emitted))
                 = parse_response(kind, [headers |-> EmptyDict,
                                         body |-> SliceRecords])
           /\ Cardinality(Elements(emitted)) = Len(emitted)

\* C20, witness: a slice of three records read two a page has taken two
\* fetches, the second at offset 2 returning the last record.
C20_Witness ==
    /\ SliceRead
    /\ paging.paginated
    /\ paging.limit = 2
    /\ Len(SliceRecords) = 3
    /\ Len(SliceRequests) = 2
    /\ Len(response.body) = 1
    /\ Len(emitted) = 3

=============================================================================
